---- MODULE Spec2Model ----
(***************************************************************************)
(* Model of scripts/scrape-eventhub.js.  The file holds two scripts:       *)
(*   - the full-replace script (lines 1-245): scrape with a poster upload  *)
(*     per card, then clear the poster namespace, delete every row and     *)
(*     insert the pass;                                                    *)
(*   - the incremental script (lines 247-631): scrape, diff the pass       *)
(*     against the cached snapshot, upsert / mark inactive, save the cache.*)
(* Strings that the code inspects character by character (category,        *)
(* participant type, fee text) are sequences of one-character strings;     *)
(* strings it only compares (title, venue, team size) are opaque.          *)
(***************************************************************************)
EXTENDS Integers, Sequences, FiniteSets, TLC

(* ------------------------------ bounds -------------------------------- *)

\* Longest card sequence the page yields in one pass.
MaxCards == 2

\* Encoder output sizes are drawn from MAX_IMAGE_SIZE - SizeSlack .. + SizeSlack.
SizeSlack == 1

\* Calendar days known to the model: 1 .. MaxDay.
MaxDay == 2

\* Longest page made only of cards the date filter admits, for the upload
\* loop of the full-replace script.
MaxBurst == 5

(* ------------------------------ constants ----------------------------- *)

MAX_IMAGE_SIZE == 1024 * 1024

BASE_FOLDER == "eventhub"

(* ------------------------------ strings ------------------------------- *)

Lowers == <<"a", "b", "c", "d", "e", "f", "g", "h", "i", "j", "k", "l", "m",
            "n", "o", "p", "q", "r", "s", "t", "u", "v", "w", "x", "y", "z">>
Uppers == <<"A", "B", "C", "D", "E", "F", "G", "H", "I", "J", "K", "L", "M",
            "N", "O", "P", "Q", "R", "S", "T", "U", "V", "W", "X", "Y", "Z">>

LowerChars == {Lowers[i] : i \in 1..Len(Lowers)}
DigitChars == {"0", "1", "2", "3", "4", "5", "6", "7", "8", "9"}

\* String.prototype.toLowerCase on one character.
toLowerChar(c) ==
  IF \E i \in 1..Len(Uppers) : Uppers[i] = c
  THEN Lowers[CHOOSE i \in 1..Len(Uppers) : Uppers[i] = c]
  ELSE c

toLowerCase(s) == [i \in 1..Len(s) |-> toLowerChar(s[i])]

IsAlnum(c) == c \in LowerChars \cup DigitChars

\* .replace(/[^a-z0-9]+/g, '-'): every maximal run of other characters
\* becomes one '-'.
RECURSIVE CollapseRuns(_, _)
CollapseRuns(s, inRun) ==
  IF s = << >> THEN << >>
  ELSE IF IsAlnum(Head(s)) THEN <<Head(s)>> \o CollapseRuns(Tail(s), FALSE)
  ELSE IF inRun THEN CollapseRuns(Tail(s), TRUE)
  ELSE <<"-">> \o CollapseRuns(Tail(s), TRUE)

\* .replace(/(^-|-$)/g, ''): one leading and one trailing '-' are removed.
TrimDashes(s) ==
  LET a == IF s # << >> /\ Head(s) = "-" THEN Tail(s) ELSE s
  IN  IF a # << >> /\ a[Len(a)] = "-" THEN SubSeq(a, 1, Len(a) - 1) ELSE a

slugify(str) == TrimDashes(CollapseRuns(toLowerCase(str), FALSE))

DigitVal(c) ==
  CASE c = "0" -> 0 [] c = "1" -> 1 [] c = "2" -> 2 [] c = "3" -> 3
    [] c = "4" -> 4 [] c = "5" -> 5 [] c = "6" -> 6 [] c = "7" -> 7
    [] c = "8" -> 8 [] c = "9" -> 9

DigitChar(d) ==
  CASE d = 0 -> "0" [] d = 1 -> "1" [] d = 2 -> "2" [] d = 3 -> "3"
    [] d = 4 -> "4" [] d = 5 -> "5" [] d = 6 -> "6" [] d = 7 -> "7"
    [] d = 8 -> "8" [] d = 9 -> "9"

\* The value of the leading digits of s, continuing from acc.
RECURSIVE LeadingDigits(_, _)
LeadingDigits(s, acc) ==
  IF s = << >> \/ Head(s) \notin DigitChars THEN acc
  ELSE LeadingDigits(Tail(s), 10 * acc + DigitVal(Head(s)))

\* parseInt(text) || 0 on trimmed text: an optional sign, then the leading
\* digits; NaN (no digit) and 0 both give 0.
parseIntOrZero(s) ==
  LET neg  == s # << >> /\ Head(s) = "-"
      body == IF s # << >> /\ Head(s) \in {"-", "+"} THEN Tail(s) ELSE s
      n    == LeadingDigits(body, 0)
  IN  IF neg THEN 0 - n ELSE n

RECURSIVE NatToStr(_)
NatToStr(n) ==
  IF n < 10 THEN <<DigitChar(n)>> ELSE NatToStr(n \div 10) \o <<DigitChar(n % 10)>>

\* Template interpolation `${entryFee}` of a number.
NumToStr(n) == IF n < 0 THEN <<"-">> \o NatToStr(0 - n) ELSE NatToStr(n)

(* ------------------------- image compression -------------------------- *)

\* The qualities the loop of compressImageStrict can reach.
Qualities == {80, 70, 60, 50, 40, 30}

\* Mutant of UnderCeiling: the comparison lets the ceiling itself through.
UnderCeiling_AtMost(len) == len <= MAX_IMAGE_SIZE

\* if (output.length < MAX_IMAGE_SIZE)
UnderCeiling(len) == len < MAX_IMAGE_SIZE

\* Mutant of LoopGuard: the floor itself is not tried.
LoopGuard_AboveFloor(q) == q > 30

\* while (quality >= 30)
LoopGuard(q) == q >= 30

\* compressImageStrict as a function of the encoder's size behaviour
\* enc : quality -> byte length of sharp's output at that quality.
RECURSIVE CompressFrom(_, _)
CompressFrom(enc, q) ==
  IF ~LoopGuard(q) THEN [ok |-> FALSE, len |-> 0, quality |-> q]
  ELSE IF UnderCeiling(enc[q]) THEN [ok |-> TRUE, len |-> enc[q], quality |-> q]
  ELSE CompressFrom(enc, q - 10)

compressImageStrict(enc) == CompressFrom(enc, 80)

\* Byte lengths an encoding can have, around the ceiling.
Sizes == (MAX_IMAGE_SIZE - SizeSlack) .. (MAX_IMAGE_SIZE + SizeSlack)

\* Every size behaviour of the encoder over the six qualities.
EncoderBehaviours == [Qualities -> Sizes]

\* Encoders whose output fits from quality t downwards (t = 20: never fits),
\* used where a whole upload is one step.
ThresholdEncoder(t) ==
  [q \in Qualities |-> IF q <= t THEN MAX_IMAGE_SIZE - 1 ELSE MAX_IMAGE_SIZE]

ThresholdEncoders == {ThresholdEncoder(t) : t \in Qualities \cup {20}}

(* -------------------------------- cards ------------------------------- *)
(* A card is what the selectors of the scrape loop read from one           *)
(* `.card` element, after .text().trim():                                  *)
(*   eid        button[name="eid"] value ("" when the button is absent),   *)
(*   title      .card-title span text,                                     *)
(*   dateStr    << >> for a text Date cannot parse, else <<day>>,          *)
(*   venue      text after the map icon ("" when absent),                  *)
(*   category   << >> when no parenthesised div, else <<the div text>>,    *)
(*   participant << >> when no participant span, else <<text>>,            *)
(*   feeText    text after the rupee icon,                                 *)
(*   teamSize   the team size string the team-size extraction yields,      *)
(*   img        << >> when the card has no img, else <<src>>.              *)
(***************************************************************************)

Days == 1..MaxDay

CardA ==
  [eid |-> "7", title |-> "Hack Night", dateStr |-> <<2>>, venue |-> "Hall",
   category |-> <<<<"(", "W", "s", ")">>>>, participant |-> << >>,
   feeText |-> <<"F", "r", "e", "e">>, teamSize |-> "2-4", img |-> << >>]

\* The same event variant as CardA under another title.
CardB == [CardA EXCEPT !.title = "Hack Night II"]

\* Another event, dated on day 1, with a fee and no venue.
CardC ==
  [eid |-> "8", title |-> "Quiz", dateStr |-> <<1>>, venue |-> "",
   category |-> << >>, participant |-> <<<<"A", "l", "l">>>>,
   feeText |-> <<"5", "0">>, teamSize |-> "1", img |-> <<"quiz.png">>]

\* A card without an event: the "0" sentinel, an unparseable date.
CardNone ==
  [eid |-> "0", title |-> "Banner", dateStr |-> << >>, venue |-> "",
   category |-> << >>, participant |-> << >>,
   feeText |-> << >>, teamSize |-> "1", img |-> << >>]

CardPool == {CardA, CardB, CardC, CardNone}

\* Every card sequence a page can yield, up to MaxCards cards.
SeqsUpTo(S, n) == UNION {[1..k -> S] : k \in 0..n}

Pages == SeqsUpTo(CardPool, MaxCards)

\* The event of CardA listed under the category text "(WS)".
CardD == [CardA EXCEPT !.category = <<<<"(", "W", "S", ")">>>>]

\* A page of n cards that the date filter admits on every day: n listings
\* of the event of CardA.
BurstPage(n) == [k \in 1..n |-> CardA]

\* Pages of the full-replace script: the pages above with CardD among the
\* cards, and the pages of up to MaxBurst admitted events.
FullPages ==
  SeqsUpTo(CardPool \cup {CardD}, MaxCards)
    \cup {BurstPage(n) : n \in 1..MaxBurst}

(* --------------------- deriving a record from a card ------------------ *)

\* if (!eventhubId || eventhubId === '0') continue;  if (!title) continue;
HasEvent(card) == card.eid # "" /\ card.eid # "0" /\ card.title # ""

\* isUpcomingOrOngoing(dateStr) with the clock reading `today`.
isUpcomingOrOngoing(dateStr, today) ==
  IF dateStr = << >> THEN FALSE ELSE dateStr[1] >= today

\* venue = text || 'TBA'
VenueOf(card) == IF card.venue = "" THEN "TBA" ELSE card.venue

General == <<"G", "e", "n", "e", "r", "a", "l">>
All == <<"A", "l", "l">>

\* Full-replace script: the last div whose text starts with '(' and ends
\* with ')' gives category = t.slice(1, -1).
FullCategoryOf(card) ==
  IF card.category = << >> THEN General
  ELSE LET t == card.category[1]
       IN  IF Len(t) >= 2 /\ t[1] = "(" /\ t[Len(t)] = ")"
           THEN SubSeq(t, 2, Len(t) - 1) ELSE General

\* Position of the first ')' of t after position i, 0 when there is none.
RECURSIVE FirstClose(_, _)
FirstClose(t, i) ==
  IF i > Len(t) THEN 0 ELSE IF t[i] = ")" THEN i ELSE FirstClose(t, i + 1)

\* First match of /\(([^)]+)\)/ in t starting the search at position i:
\* the captured text, << >> when nothing matches.
RECURSIVE ParenMatch(_, _)
ParenMatch(t, i) ==
  IF i > Len(t) THEN << >>
  ELSE IF t[i] = "(" /\ FirstClose(t, i + 1) > i + 1
       THEN <<SubSeq(t, i + 1, FirstClose(t, i + 1) - 1)>>
       ELSE ParenMatch(t, i + 1)

\* Incremental script: text.match(/\(([^)]+)\)/) on the first matching div.
IncrCategoryOf(card) ==
  IF card.category = << >> THEN General
  ELSE LET m == ParenMatch(card.category[1], 1)
       IN  IF m = << >> THEN General ELSE m[1]

ParticipantOf(card) ==
  IF card.participant = << >> THEN All ELSE card.participant[1]

\* feeText.toLowerCase() === 'free' ? 0 : parseInt(feeText) || 0
FullEntryFee(card) ==
  IF toLowerCase(card.feeText) = <<"f", "r", "e", "e">> THEN 0
  ELSE parseIntOrZero(card.feeText)

\* parseInt(feeStr) || 0
IncrEntryFee(card) == parseIntOrZero(card.feeText)

\* slugify(`${category}|${participantType}|${entryFee}`)
VariantKeyOf(card) ==
  slugify(FullCategoryOf(card) \o <<"|">> \o ParticipantOf(card) \o <<"|">>
          \o NumToStr(FullEntryFee(card)))

\* `official:${eventhubId}:${variantKey}`
FullEventId(card) == <<"official", card.eid, VariantKeyOf(card)>>

\* `${BASE_FOLDER}/${eventhubId}/${variantKey}.webp`; the public URL of an
\* object is identified with its path.
PosterPath(eventhubId, variantKey) == <<BASE_FOLDER, eventhubId, variantKey>>

\* parseEventDate of the full-replace script: null (<< >>) or the instant.
FullParseEventDate(dateStr) == dateStr

\* parseEventDate of the incremental script: toISOString throws on an
\* invalid date and the handler returns the clock reading `now` instead.
IncrParseEventDate(dateStr, now) == IF dateStr = << >> THEN <<now>> ELSE dateStr

\* The object pushed by the full-replace loop.
FullEvent(card, poster_url) ==
  [id |-> FullEventId(card), title |-> card.title,
   event_date |-> FullParseEventDate(card.dateStr), venue |-> VenueOf(card),
   category |-> FullCategoryOf(card), participant_type |-> ParticipantOf(card),
   entry_fee |-> FullEntryFee(card), team_size |-> card.teamSize,
   poster_url |-> <<poster_url>>, is_active |-> TRUE]

\* The object pushed by the incremental loop (scraped_at, a clock reading
\* no comparison reads, is left out).
IncrEvent(card, now) ==
  [id |-> card.eid, title |-> card.title,
   event_date |-> IncrParseEventDate(card.dateStr, now), venue |-> VenueOf(card),
   category |-> IncrCategoryOf(card), participant_type |-> ParticipantOf(card),
   entry_fee |-> IncrEntryFee(card), team_size |-> card.teamSize,
   poster_url |-> card.img]

\* eventCards.each(...): the records of the cards that hold an event, in
\* card order; nows[i] is the clock reading while card i is parsed.
RECURSIVE IncrParseFrom(_, _, _)
IncrParseFrom(cs, nows, i) ==
  IF i > Len(cs) THEN << >>
  ELSE (IF HasEvent(cs[i]) THEN <<IncrEvent(cs[i], nows[i])>> ELSE << >>)
       \o IncrParseFrom(cs, nows, i + 1)

IncrParse(cs, nows) == IncrParseFrom(cs, nows, 1)

Ids(evs) == {evs[i].id : i \in 1..Len(evs)}

(* -------------------------------- state ------------------------------- *)

VARIABLES
  pc,        \* position of the running script: "idle" between two runs
  cards,     \* the cards of the fetched page
  events,    \* events / scrapedEvents: the records of the pass so far
  diff,      \* newEvents, updatedEvents, unchangedEvents, deletedEventIds
  store,     \* Record Store: id -> [rec, is_active] of table official_events
  objects,   \* Object Store: the poster paths that exist in the bucket
  cache,     \* the snapshot cache file: absent, corrupt or valid with events
  cache0,    \* the cache file as it was when the run started
  store0,    \* the Record Store as it was when the run started
  objects0,  \* the Object Store as it was when the run started
  prev,      \* the run before, kept while it is the one a re-run repeats
  ops,       \* the store and bucket calls issued by the run, in order
  cardIdx,   \* index of the card the full-replace loop is at
  inflight,  \* uploadPoster calls awaited and not yet settled
  error,     \* what the top-level catch caught: "" while nothing was thrown
  enc,       \* compressImageStrict: the encoder's size at each quality
  quality,   \* compressImageStrict: the local `quality`
  tried,     \* compressImageStrict: the qualities encoded so far
  cpc,       \* compressImageStrict: "loop", "returned" or "thrown"
  output     \* compressImageStrict: << >>, or <<length of the returned buffer>>

vars == <<pc, cards, events, diff, store, objects, cache, cache0, store0,
          objects0, prev, ops, cardIdx, inflight, error, enc, quality, tried,
          cpc, output>>

runVars == <<cards, events, diff, cardIdx, inflight>>
\* The image pipeline errors of uploadPoster.
PipelineErrors == {"poster fetch", "compress", "upload"}
compressVars == <<enc, quality, tried, cpc, output>>

NoDiff ==
  [newEvents |-> << >>, updatedEvents |-> << >>, unchangedEvents |-> << >>,
   deletedEventIds |-> << >>]

NoCache == [state |-> "absent", events |-> << >>]

EmptyStore == [id \in {} |-> [rec |-> 0, is_active |-> FALSE]]

\* No run is remembered.
NoPrev == [error |-> "", events |-> << >>, diff |-> NoDiff, store0 |-> EmptyStore]

InitRun ==
  /\ pc = "idle"
  /\ cards = << >>
  /\ events = << >>
  /\ diff = NoDiff
  /\ store = EmptyStore
  /\ objects = {}
  /\ cache = NoCache
  /\ cache0 = NoCache
  /\ store0 = EmptyStore
  /\ objects0 = {}
  /\ prev = NoPrev
  /\ ops = << >>
  /\ cardIdx = 0
  /\ inflight = 0
  /\ error = ""

Init ==
  /\ InitRun
  /\ enc = ThresholdEncoder(80)
  /\ quality = 80
  /\ tried = << >>
  /\ cpc = "loop"
  /\ output = << >>

(* ------------------------- Record Store calls ------------------------- *)

ActiveIds == {id \in DOMAIN store : store[id].is_active}

Distinct(evs) == \A i, j \in 1..Len(evs) : evs[i].id = evs[j].id => i = j

\* The last record of evs with this id (a later row of one statement, or a
\* later Map entry, replaces an earlier one).
LastWithId(evs, id) ==
  evs[CHOOSE i \in 1..Len(evs) :
        /\ evs[i].id = id
        /\ \A j \in (i + 1)..Len(evs) : evs[j].id # id]

\* .upsert(rows, { onConflict: 'id' }) that succeeded: a row is written for
\* every id of the payload; the payload of the incremental script carries no
\* is_active, so an existing row keeps its flag and a new row gets the
\* column default.
Upserted(st, rows) ==
  [id \in DOMAIN st \cup Ids(rows) |->
     IF id \in Ids(rows)
     THEN [rec |-> LastWithId(rows, id),
           is_active |-> IF id \in DOMAIN st THEN st[id].is_active ELSE TRUE]
     ELSE st[id]]

\* .update({ is_active: false, ... }).in('id', ids) that succeeded.
MarkedInactive(st, ids) ==
  [id \in DOMAIN st |->
     IF id \in ids THEN [st[id] EXCEPT !.is_active = FALSE] ELSE st[id]]

\* .insert(rows) that succeeded.
Inserted(st, rows) ==
  [id \in DOMAIN st \cup Ids(rows) |->
     IF id \in Ids(rows)
     THEN [rec |-> LastWithId(rows, id), is_active |-> LastWithId(rows, id).is_active]
     ELSE st[id]]

\* One statement cannot write the same id twice, and an insert cannot write
\* an id the table holds: such a call returns an error.
CanUpsert(rows) == Distinct(rows)
CanInsert(st, rows) == Distinct(rows) /\ Ids(rows) \cap DOMAIN st = {}

Call(op, ok, arg) == [op |-> op, ok |-> ok, arg |-> arg]

(* ------------------------- incremental script ------------------------- *)

\* loadCache(): the events of a readable file, none when the file is absent
\* or JSON.parse throws; `cache.events || []`.
loadCache(file) == IF file.state = "valid" THEN file.events ELSE << >>

\* cachedMap.get(id): << >> for undefined, else <<the entry>>; a later entry
\* of the cached list replaces an earlier one with the same id.
MapGet(evs, id) == IF id \in Ids(evs) THEN <<LastWithId(evs, id)>> ELSE << >>

\* Mutant of hasChanged: the poster URL is compared as well.
hasChanged_WithPoster(cached, event) ==
  \/ cached.title # event.title
  \/ cached.event_date # event.event_date
  \/ cached.venue # event.venue
  \/ cached.category # event.category
  \/ cached.entry_fee # event.entry_fee
  \/ cached.team_size # event.team_size
  \/ cached.poster_url # event.poster_url

hasChanged(cached, event) ==
  \/ cached.title # event.title
  \/ cached.event_date # event.event_date
  \/ cached.venue # event.venue
  \/ cached.category # event.category
  \/ cached.entry_fee # event.entry_fee
  \/ cached.team_size # event.team_size

IsNew(cachedEvents, event) == MapGet(cachedEvents, event.id) = << >>

IsUpdated(cachedEvents, event) ==
  /\ ~IsNew(cachedEvents, event)
  /\ hasChanged(MapGet(cachedEvents, event.id)[1], event)

IsUnchanged(cachedEvents, event) ==
  /\ ~IsNew(cachedEvents, event)
  /\ ~hasChanged(MapGet(cachedEvents, event.id)[1], event)

\* The class the loop body gives one record of the pass.
ClassOf(cachedEvents, event) ==
  IF IsNew(cachedEvents, event) THEN "new"
  ELSE IF IsUpdated(cachedEvents, event) THEN "updated"
  ELSE "unchanged"

\* The records of the pass pushed to the list of class cls, in order.
RECURSIVE Pushed(_, _, _, _)
Pushed(cachedEvents, scrapedEvents, cls, i) ==
  IF i > Len(scrapedEvents) THEN << >>
  ELSE (IF ClassOf(cachedEvents, scrapedEvents[i]) = cls
        THEN <<scrapedEvents[i]>> ELSE << >>)
       \o Pushed(cachedEvents, scrapedEvents, cls, i + 1)

\* for (const cached of cachedEvents) if (!scrapedMap.has(cached.id)) push(id)
RECURSIVE DeletedFrom(_, _, _)
DeletedFrom(cachedEvents, scrapedEvents, i) ==
  IF i > Len(cachedEvents) THEN << >>
  ELSE (IF cachedEvents[i].id \notin Ids(scrapedEvents)
        THEN <<cachedEvents[i].id>> ELSE << >>)
       \o DeletedFrom(cachedEvents, scrapedEvents, i + 1)

\* The four lists syncWithSupabase builds before it touches the store.
Classify(cachedEvents, scrapedEvents) ==
  [newEvents |-> Pushed(cachedEvents, scrapedEvents, "new", 1),
   updatedEvents |-> Pushed(cachedEvents, scrapedEvents, "updated", 1),
   unchangedEvents |-> Pushed(cachedEvents, scrapedEvents, "unchanged", 1),
   deletedEventIds |-> DeletedFrom(cachedEvents, scrapedEvents, 1)]

\* Mutant of eventsToUpsert: the whole pass is upserted.
eventsToUpsert_WholePass == events

\* const eventsToUpsert = [...newEvents, ...updatedEvents]
eventsToUpsert == diff.newEvents \o diff.updatedEvents

SeqRange(q) == {q[i] : i \in 1..Len(q)}

\* main(): the credentials are present and the scrape starts.
IncrStart ==
  /\ pc = "idle"
  /\ pc' = "fetch"
  /\ UNCHANGED <<prev, error, runVars, store, objects, cache, cache0, store0, objects0, ops, compressVars>>

\* main(): 'Missing Supabase credentials in environment variables'.
IncrMissingCredentials ==
  /\ pc = "idle"
  /\ pc' = "failed"
  /\ error' = "credentials"
  /\ UNCHANGED <<prev, runVars, store, objects, cache, cache0, store0, objects0, ops, compressVars>>

\* scrapeEventHub(): axios.get rejects (transport error or timeout).
IncrFetchFail ==
  /\ pc = "fetch"
  /\ pc' = "failed"
  /\ error' = "page fetch"
  /\ UNCHANGED <<prev, runVars, store, objects, cache, cache0, store0, objects0, ops, compressVars>>

\* scrapeEventHub(): 'No event cards found - HTML structure may have changed'.
IncrNoCards ==
  /\ pc = "fetch"
  /\ pc' = "failed"
  /\ error' = "no cards"
  /\ UNCHANGED <<prev, runVars, store, objects, cache, cache0, store0, objects0, ops, compressVars>>

\* scrapeEventHub(): the page holds cards; every card with an event id and
\* a title is pushed, in order.
IncrScrape ==
  /\ pc = "fetch"
  /\ \E page \in Pages \ {<< >>} :
       \E nows \in [1..Len(page) -> Days] :
         /\ cards' = page
         /\ events' = IncrParse(page, nows)
         /\ prev' = IF IncrParse(page, nows) = prev.events THEN prev ELSE NoPrev
  /\ pc' = "scraped"
  /\ UNCHANGED <<error, diff, cardIdx, inflight, store, objects, cache, cache0, store0, objects0, ops,
                 compressVars>>

\* main(): 'No events scraped - aborting sync'.
IncrNoEvents ==
  /\ pc = "scraped"
  /\ events = << >>
  /\ pc' = "failed"
  /\ error' = "no events"
  /\ UNCHANGED <<prev, runVars, store, objects, cache, cache0, store0, objects0, ops, compressVars>>

\* Mutant of IncrClassify: the exception of JSON.parse on an unreadable
\* cache file is not caught and ends the run.
IncrClassify_CacheThrows ==
  /\ pc = "scraped"
  /\ events # << >>
  /\ IF cache.state = "corrupt"
     THEN pc' = "failed" /\ error' = "cache" /\ diff' = diff
     ELSE /\ diff' = Classify(loadCache(cache), events)
          /\ pc' = "upsert"
          /\ error' = error
  /\ UNCHANGED <<prev, cards, events, cardIdx, inflight, store, objects, cache,
                 cache0, store0, objects0, ops, compressVars>>

\* syncWithSupabase(): load the cache and classify the pass.
IncrClassify ==
  /\ pc = "scraped"
  /\ events # << >>
  /\ diff' = Classify(loadCache(cache), events)
  /\ pc' = "upsert"
  /\ UNCHANGED <<prev, error, cards, events, cardIdx, inflight, store, objects, cache,
                 cache0, store0, objects0, ops, compressVars>>

\* Step 1 is skipped: nothing is new or updated.
IncrUpsertSkip ==
  /\ pc = "upsert"
  /\ eventsToUpsert = << >>
  /\ pc' = "markInactive"
  /\ UNCHANGED <<prev, error, runVars, store, objects, cache, cache0, store0, objects0, ops, compressVars>>

\* Step 1: the upsert succeeds.
IncrUpsertOk ==
  /\ pc = "upsert"
  /\ eventsToUpsert # << >>
  /\ CanUpsert(eventsToUpsert)
  /\ store' = Upserted(store, eventsToUpsert)
  /\ ops' = Append(ops, Call("upsert", TRUE, eventsToUpsert))
  /\ pc' = "markInactive"
  /\ UNCHANGED <<prev, error, runVars, objects, cache, cache0, store0, objects0, compressVars>>

\* Step 1: the upsert returns an error: 'Upsert failed'.
IncrUpsertFail ==
  /\ pc = "upsert"
  /\ eventsToUpsert # << >>
  /\ ops' = Append(ops, Call("upsert", FALSE, eventsToUpsert))
  /\ pc' = "failed"
  /\ error' = "upsert"
  /\ UNCHANGED <<prev, runVars, store, objects, cache, cache0, store0, objects0, compressVars>>

\* Step 2 is skipped: nothing was deleted.
IncrMarkSkip ==
  /\ pc = "markInactive"
  /\ diff.deletedEventIds = << >>
  /\ pc' = "saveCache"
  /\ UNCHANGED <<prev, error, runVars, store, objects, cache, cache0, store0, objects0, ops, compressVars>>

\* Step 2: the deleted ids are marked inactive.
IncrMarkOk ==
  /\ pc = "markInactive"
  /\ diff.deletedEventIds # << >>
  /\ store' = MarkedInactive(store, SeqRange(diff.deletedEventIds))
  /\ ops' = Append(ops, Call("update", TRUE, diff.deletedEventIds))
  /\ pc' = "saveCache"
  /\ UNCHANGED <<prev, error, runVars, objects, cache, cache0, store0, objects0, compressVars>>

\* Mutant of IncrMarkFail: the error of the update is not thrown and the
\* run goes on to save the cache.
IncrMarkFail_NotThrown ==
  /\ pc = "markInactive"
  /\ diff.deletedEventIds # << >>
  /\ ops' = Append(ops, Call("update", FALSE, diff.deletedEventIds))
  /\ pc' = "saveCache"
  /\ UNCHANGED <<prev, error, runVars, store, objects, cache, cache0, store0, objects0, compressVars>>

\* Mutant of IncrMarkFail: the cache is written before the error is thrown.
IncrMarkFail_SavesCache ==
  /\ pc = "markInactive"
  /\ diff.deletedEventIds # << >>
  /\ ops' = Append(ops, Call("update", FALSE, diff.deletedEventIds))
  /\ cache' = [state |-> "valid", events |-> events]
  /\ pc' = "failed"
  /\ error' = "update"
  /\ UNCHANGED <<prev, runVars, store, objects, cache0, store0, objects0, compressVars>>

\* Step 2: the update returns an error: 'Delete failed'.
IncrMarkFail ==
  /\ pc = "markInactive"
  /\ diff.deletedEventIds # << >>
  /\ ops' = Append(ops, Call("update", FALSE, diff.deletedEventIds))
  /\ pc' = "failed"
  /\ error' = "update"
  /\ UNCHANGED <<prev, runVars, store, objects, cache, cache0, store0, objects0, compressVars>>

\* What saveCache(events) can leave on disk: the new snapshot; the old file
\* when mkdirSync or the open throws; a truncated file when writeFileSync
\* throws part-way.  The exception is caught and only logged.
SavedFiles(file, evs) ==
  {[state |-> "valid", events |-> evs], file, [state |-> "corrupt", events |-> << >>]}

\* saveCache(scrapedEvents), then the summary and process.exit(0).
IncrSaveCache ==
  /\ pc = "saveCache"
  /\ cache' \in SavedFiles(cache, events)
  /\ pc' = "done"
  /\ UNCHANGED <<prev, error, runVars, store, objects, cache0, store0, objects0, ops, compressVars>>

\* The process has exited; the next invocation starts from the stores and
\* the cache file as they are.  A run that aborted on the mark-inactive
\* update is remembered until the next run scrapes another pass or ends.
Exit ==
  /\ pc \in {"done", "failed"}
  /\ pc' = "idle"
  /\ cards' = << >>
  /\ events' = << >>
  /\ diff' = NoDiff
  /\ cardIdx' = 0
  /\ inflight' = 0
  /\ error' = ""
  /\ ops' = << >>
  /\ cache0' = cache
  /\ store0' = store
  /\ objects0' = objects
  /\ prev' = IF pc = "failed" /\ error = "update"
             THEN [error |-> error, events |-> events, diff |-> diff,
                   store0 |-> store0]
             ELSE NoPrev
  /\ UNCHANGED <<store, objects, cache, compressVars>>

NextIncr ==
  \/ IncrStart
  \/ IncrMissingCredentials
  \/ IncrFetchFail
  \/ IncrNoCards
  \/ IncrScrape
  \/ IncrNoEvents
  \/ IncrClassify
  \/ IncrUpsertSkip
  \/ IncrUpsertOk
  \/ IncrUpsertFail
  \/ IncrMarkSkip
  \/ IncrMarkOk
  \/ IncrMarkFail
  \/ IncrSaveCache
  \/ Exit

SpecIncr == Init /\ [][NextIncr]_vars

(* ------------------------- full-replace script ------------------------ *)

storeVars == <<store, objects, cache, cache0, store0, objects0>>

\* The card the loop is at.
card == cards[cardIdx]

\* The IIFE starts scrapeEventHub().
FullStart ==
  /\ pc = "idle"
  /\ pc' = "fetch"
  /\ UNCHANGED <<prev, error, runVars, storeVars, ops, compressVars>>

\* scrapeEventHub(): axios.get of the listing rejects; the IIFE catches.
FullFetchFail ==
  /\ pc = "fetch"
  /\ pc' = "failed"
  /\ error' = "page fetch"
  /\ UNCHANGED <<prev, runVars, storeVars, ops, compressVars>>

\* scrapeEventHub(): the page is loaded and the loop starts.
FullFetch ==
  /\ pc = "fetch"
  /\ cards' \in FullPages
  /\ cardIdx' = 1
  /\ pc' = "loop"
  /\ UNCHANGED <<prev, error, events, diff, inflight, storeVars, ops, compressVars>>

\* The three `continue`s: no event id, no title, or a past / unparseable date.
FullCardSkip ==
  /\ pc = "loop"
  /\ cardIdx <= Len(cards)
  /\ \E today \in Days :
       ~(HasEvent(card) /\ isUpcomingOrOngoing(card.dateStr, today))
  /\ cardIdx' = cardIdx + 1
  /\ UNCHANGED <<prev, error, pc, cards, events, diff, inflight, storeVars, ops, compressVars>>

\* Mutant of FullUploadBegin: the call is issued and not awaited, the loop
\* goes on to the next card.
FullUploadBegin_NotAwaited ==
  /\ pc = "loop"
  /\ cardIdx <= Len(cards)
  /\ \E today \in Days :
       HasEvent(card) /\ isUpcomingOrOngoing(card.dateStr, today)
  /\ inflight' = inflight + 1
  /\ cardIdx' = cardIdx + 1
  /\ UNCHANGED <<prev, error, pc, cards, events, diff, storeVars, ops, compressVars>>

\* const poster_url = await uploadPoster(eventhubId, variantKey): the call
\* is issued and awaited.
FullUploadBegin ==
  /\ pc = "loop"
  /\ cardIdx <= Len(cards)
  /\ \E today \in Days :
       HasEvent(card) /\ isUpcomingOrOngoing(card.dateStr, today)
  /\ inflight' = inflight + 1
  /\ pc' = "upload"
  /\ UNCHANGED <<prev, error, cards, events, diff, cardIdx, storeVars, ops, compressVars>>

\* uploadPoster: axios.get of the source image rejects; nothing catches it
\* before the IIFE.
FullPosterFetchFail ==
  /\ pc = "upload"
  /\ inflight' = inflight - 1
  /\ pc' = "failed"
  /\ error' = "poster fetch"
  /\ UNCHANGED <<prev, cards, events, diff, cardIdx, storeVars, ops, compressVars>>

\* uploadPoster: compressImageStrict throws 'cannot be compressed below 1MB'.
FullCompressFail ==
  /\ pc = "upload"
  /\ \E e \in ThresholdEncoders : ~compressImageStrict(e).ok
  /\ inflight' = inflight - 1
  /\ pc' = "failed"
  /\ error' = "compress"
  /\ UNCHANGED <<prev, cards, events, diff, cardIdx, storeVars, ops, compressVars>>

\* uploadPoster: the bucket upload returns an error: `throw error`.
FullUploadFail ==
  /\ pc = "upload"
  /\ \E e \in ThresholdEncoders : compressImageStrict(e).ok
  /\ ops' = Append(ops, Call("upload", FALSE,
                             PosterPath(card.eid, VariantKeyOf(card))))
  /\ inflight' = inflight - 1
  /\ pc' = "failed"
  /\ error' = "upload"
  /\ UNCHANGED <<prev, cards, events, diff, cardIdx, storeVars, compressVars>>

\* uploadPoster returns the public URL and the record is pushed.
FullUploadOk ==
  /\ pc = "upload"
  /\ \E e \in ThresholdEncoders : compressImageStrict(e).ok
  /\ LET filePath == PosterPath(card.eid, VariantKeyOf(card))
     IN  /\ objects' = objects \cup {filePath}
         /\ ops' = Append(ops, Call("upload", TRUE, filePath))
         /\ events' = Append(events, FullEvent(card, filePath))
  /\ inflight' = inflight - 1
  /\ cardIdx' = cardIdx + 1
  /\ pc' = "loop"
  /\ UNCHANGED <<prev, error, cards, diff, store, cache, cache0, store0, objects0, compressVars>>

\* Mutant of FullNoEvents: the early return is missing and sync runs on the
\* empty pass.
FullNoEvents_StillSyncs ==
  /\ pc = "loop"
  /\ cardIdx > Len(cards)
  /\ events = << >>
  /\ pc' = "clear"
  /\ UNCHANGED <<prev, error, runVars, storeVars, ops, compressVars>>

\* if (!events.length) { 'No upcoming events found'; return; }
FullNoEvents ==
  /\ pc = "loop"
  /\ cardIdx > Len(cards)
  /\ events = << >>
  /\ pc' = "done"
  /\ UNCHANGED <<prev, error, runVars, storeVars, ops, compressVars>>

\* Mutant of FullSyncBegin: sync is entered as soon as one record is pushed,
\* with cards still to process.
FullSyncBegin_InLoop ==
  /\ pc = "loop"
  /\ events # << >>
  /\ pc' = "clear"
  /\ UNCHANGED <<prev, error, runVars, storeVars, ops, compressVars>>

\* await sync(events) is entered.
FullSyncBegin ==
  /\ pc = "loop"
  /\ cardIdx > Len(cards)
  /\ events # << >>
  /\ pc' = "clear"
  /\ UNCHANGED <<prev, error, runVars, storeVars, ops, compressVars>>

\* What clearEventHubPosters() leaves in the bucket: everything when the
\* folder listing fails or is empty or the remove fails (no result is
\* checked); otherwise the files of the folders whose own listing failed.
ClearedBuckets(objs) ==
  {objs} \cup
  {{p \in objs : p[2] \in unlisted} : unlisted \in SUBSET {p[2] : p \in objs}}

\* sync(): await clearEventHubPosters().
FullClearPosters ==
  /\ pc = "clear"
  /\ \E left \in ClearedBuckets(objects) :
       /\ objects' = left
       /\ ops' = Append(ops, Call("clear", left = {}, objects \ left))
  /\ pc' = "delete"
  /\ UNCHANGED <<prev, error, runVars, store, cache, cache0, store0, objects0, compressVars>>

\* sync(): .delete().neq('id', ''); the result is not looked at.
FullDelete ==
  /\ pc = "delete"
  /\ \E ok \in BOOLEAN :
       /\ store' = IF ok THEN EmptyStore ELSE store
       /\ ops' = Append(ops, Call("delete", ok, << >>))
  /\ pc' = "insert"
  /\ UNCHANGED <<prev, error, runVars, objects, cache, cache0, store0, objects0, compressVars>>

\* sync(): .insert(events) succeeds; 'SUCCESS'.
FullInsertOk ==
  /\ pc = "insert"
  /\ CanInsert(store, events)
  /\ store' = Inserted(store, events)
  /\ ops' = Append(ops, Call("insert", TRUE, events))
  /\ pc' = "done"
  /\ UNCHANGED <<prev, error, runVars, objects, cache, cache0, store0, objects0, compressVars>>

\* sync(): .insert(events) returns an error: `throw error`, 'FAILED'.
FullInsertFail ==
  /\ pc = "insert"
  /\ ops' = Append(ops, Call("insert", FALSE, events))
  /\ pc' = "failed"
  /\ error' = "insert"
  /\ UNCHANGED <<prev, runVars, storeVars, compressVars>>

NextFull ==
  \/ FullStart
  \/ FullFetchFail
  \/ FullFetch
  \/ FullCardSkip
  \/ FullUploadBegin
  \/ FullPosterFetchFail
  \/ FullCompressFail
  \/ FullUploadFail
  \/ FullUploadOk
  \/ FullNoEvents
  \/ FullSyncBegin
  \/ FullClearPosters
  \/ FullDelete
  \/ FullInsertOk
  \/ FullInsertFail
  \/ Exit

SpecFull == Init /\ [][NextFull]_vars

(* ------------------- compressImageStrict, step by step ---------------- *)

InitCompress ==
  /\ InitRun
  /\ enc \in EncoderBehaviours
  /\ quality = 80
  /\ tried = << >>
  /\ cpc = "loop"
  /\ output = << >>

\* One encode whose output is under the ceiling: return output.
CompressReturn ==
  /\ cpc = "loop"
  /\ LoopGuard(quality)
  /\ UnderCeiling(enc[quality])
  /\ tried' = Append(tried, quality)
  /\ output' = <<enc[quality]>>
  /\ cpc' = "returned"
  /\ UNCHANGED <<prev, error, enc, quality, pc, runVars, storeVars, ops>>

\* One encode whose output is not under the ceiling: quality -= 10.
CompressRetry ==
  /\ cpc = "loop"
  /\ LoopGuard(quality)
  /\ ~UnderCeiling(enc[quality])
  /\ tried' = Append(tried, quality)
  /\ quality' = quality - 10
  /\ UNCHANGED <<prev, error, enc, cpc, output, pc, runVars, storeVars, ops>>

\* The loop is left: throw new Error('Poster cannot be compressed below 1MB').
CompressThrow ==
  /\ cpc = "loop"
  /\ ~LoopGuard(quality)
  /\ cpc' = "thrown"
  /\ UNCHANGED <<prev, error, enc, quality, tried, output, pc, runVars, storeVars, ops>>

NextCompress == CompressReturn \/ CompressRetry \/ CompressThrow

SpecCompress == InitCompress /\ [][NextCompress]_vars

(* ------------- syncWithSupabase(): the comparison alone --------------- *)

\* The listing of event "7" with every field the parser reads taking one of
\* two values.
VariantCards ==
  {[CardA EXCEPT !.title = t, !.dateStr = d, !.venue = v, !.category = c,
                 !.participant = p, !.feeText = f, !.teamSize = s, !.img = g] :
     t \in {"Hack Night", "Hack Night II"},
     d \in {<<1>>, <<2>>},
     v \in {"Hall", ""},
     c \in {<< >>, CardA.category},
     p \in {<< >>, <<<<"S", "o", "l", "o">>>>},
     f \in {CardA.feeText, CardC.feeText},
     s \in {"2-4", "1"},
     g \in {<< >>, <<"quiz.png">>}}

VariantEvents == {IncrEvent(c, 1) : c \in VariantCards}

\* A run about to compare one scraped record with the cached record of the
\* same id.
InitClassify ==
  /\ pc = "scraped"
  /\ cards = << >>
  /\ events \in {<<e>> : e \in VariantEvents}
  /\ diff = NoDiff
  /\ store = EmptyStore
  /\ objects = {}
  /\ cache \in {[state |-> "valid", events |-> <<e>>] : e \in VariantEvents}
  /\ cache0 = cache
  /\ store0 = EmptyStore
  /\ objects0 = {}
  /\ prev = NoPrev
  /\ ops = << >>
  /\ cardIdx = 0
  /\ inflight = 0
  /\ error = ""
  /\ enc = ThresholdEncoder(80)
  /\ quality = 80
  /\ tried = << >>
  /\ cpc = "loop"
  /\ output = << >>

NextClassify == IncrClassify

SpecClassify == InitClassify /\ [][NextClassify]_vars

(* -------------------------------- claims ------------------------------ *)

\* The run has built its four classification lists.
Classified == pc \in {"upsert", "markInactive", "saveCache", "done"}

NewIds == Ids(diff.newEvents)
UpdatedIds == Ids(diff.updatedEvents)
UnchangedIds == Ids(diff.unchangedEvents)
DeletedIds == SeqRange(diff.deletedEventIds)

\* C1: once syncWithSupabase has classified the pass B against the snapshot
\* A the run started with, every id of ids(A) \cup ids(B) is in exactly one
\* of New, Updated, Unchanged, Deleted.
C1_Partition ==
  Classified =>
    /\ NewIds \cup UpdatedIds \cup UnchangedIds \cup DeletedIds
         = Ids(loadCache(cache0)) \cup Ids(events)
    /\ NewIds \cap UpdatedIds = {}
    /\ NewIds \cap UnchangedIds = {}
    /\ NewIds \cap DeletedIds = {}
    /\ UpdatedIds \cap UnchangedIds = {}
    /\ UpdatedIds \cap DeletedIds = {}
    /\ UnchangedIds \cap DeletedIds = {}

\* C2: when a reconciliation cycle has ended successfully, the ids that are
\* active in the Record Store are exactly the ids of the pass of that cycle.
C2_StoreMirrorsPass == pc = "done" => ActiveIds = Ids(events)

\* C3: a failure of one event's image pipeline (image fetch, compression
\* ceiling, upload) never ends the run: the top-level handler never catches
\* an image pipeline error.
C3_PipelineFailureIsolated == pc = "failed" => error \notin PipelineErrors

\* C4: in the calls of one cycle, the cleanup of the poster namespace comes
\* before every poster upload.
C4_ClearBeforeUpload ==
  \A i, j \in 1..Len(ops) :
    (ops[i].op = "upload" /\ ops[j].op = "clear") => j < i

\* C5: when the cached snapshot the run started with is the very sequence of
\* the current pass, nothing is New, Updated or Deleted, every record is
\* Unchanged and no Record Store call is issued.
C5_SameSnapshotNoOp ==
  (Classified /\ cache0.state = "valid" /\ cache0.events = events) =>
    /\ diff.newEvents = << >>
    /\ diff.updatedEvents = << >>
    /\ diff.deletedEventIds = << >>
    /\ diff.unchangedEvents = events
    /\ ops = << >>

\* C6: the cache file differs from what it was when the run started only
\* once the run has ended successfully, and then every store call of the run
\* succeeded; in every state of an aborted run (page fetch failure, no
\* events, upsert failure, update failure) the file is as it was.
C6_CacheUntouchedOnAbort ==
  /\ pc # "done" => cache = cache0
  /\ cache # cache0 => \A i \in 1..Len(ops) : ops[i].ok

\* C6 witness: a run that aborted on the mark-inactive update after a
\* successful upsert, with a snapshot on disk.
C6_Witness ==
  /\ pc = "failed"
  /\ error = "update"
  /\ Len(ops) = 2
  /\ cache0.state = "valid"

\* C7: the record sequence of a pass never holds two records with one id.
C7_NoDuplicateIds == Distinct(events)

StoreMutations == {"delete", "insert", "upsert", "update"}

\* C8: a Record Store mutation that failed is the last call of the run and
\* the run is in the failure state.
C8_FailedMutationAborts ==
  \A i \in 1..Len(ops) :
    (ops[i].op \in StoreMutations /\ ~ops[i].ok) =>
      (i = Len(ops) /\ pc = "failed")

\* C9: compressImageStrict returns only a buffer strictly under the ceiling,
\* and returns nothing when it throws.
C9_ReturnsUnderCeiling ==
  /\ cpc = "returned" => (Len(output) = 1 /\ output[1] < MAX_IMAGE_SIZE)
  /\ cpc # "returned" => output = << >>

\* C9 witness: a buffer of ceiling - 1 bytes returned after an encoding of
\* exactly the ceiling was turned down.
C9_Witness ==
  /\ cpc = "returned"
  /\ output = <<MAX_IMAGE_SIZE - 1>>
  /\ Len(tried) = 2
  /\ enc[80] = MAX_IMAGE_SIZE

\* The calls of the run with this name.
CallsOf(op) == {i \in 1..Len(ops) : ops[i].op = op}

\* C10: the incremental run issues at most one upsert, whose payload is the
\* New records followed by the Updated ones, at most one update, whose ids
\* are the Deleted ids, and nothing else (no physical delete); no Unchanged
\* record is in a payload; a run that ended successfully issued the upsert
\* iff something was New or Updated and the update iff something was
\* Deleted, so none at all when the three are empty.
C10_ApplyPolicy ==
  /\ \A i \in 1..Len(ops) : ops[i].op \in {"upsert", "update"}
  /\ Cardinality(CallsOf("upsert")) <= 1
  /\ Cardinality(CallsOf("update")) <= 1
  /\ \A i \in CallsOf("upsert") :
       /\ ops[i].arg = diff.newEvents \o diff.updatedEvents
       /\ \A k \in 1..Len(diff.unchangedEvents) :
            \A m \in 1..Len(ops[i].arg) : ops[i].arg[m] # diff.unchangedEvents[k]
  /\ \A i \in CallsOf("update") : ops[i].arg = diff.deletedEventIds
  /\ pc = "done" =>
       /\ (CallsOf("upsert") # {}) <=>
            (diff.newEvents # << >> \/ diff.updatedEvents # << >>)
       /\ (CallsOf("update") # {}) <=> (diff.deletedEventIds # << >>)

\* C10 witness: a successful run that upserted, marked an id inactive and
\* left an Unchanged record alone.
C10_Witness ==
  /\ pc = "done"
  /\ Len(ops) = 2
  /\ diff.unchangedEvents # << >>

\* C11: never more than 4 uploadPoster calls are in flight, whatever the
\* number of admitted cards, above 4 included.
C11_UploadCap == inflight <= 4

\* C11 witness: the fifth admitted card of a page has its upload in flight.
C11_Witness ==
  /\ pc = "upload"
  /\ inflight = 1
  /\ Len(events) = 4
  /\ cardIdx = 5

\* C12: once a Record Store mutation has been issued, no upload is in
\* flight, every card of the pass has been processed, and every upload of
\* the call log precedes every mutation.
C12_MutationsAfterUploads ==
  /\ (\E i \in 1..Len(ops) : ops[i].op \in StoreMutations) =>
       (inflight = 0 /\ cardIdx > Len(cards))
  /\ \A i, j \in 1..Len(ops) :
       (ops[i].op \in StoreMutations /\ ops[j].op = "upload") => j < i

\* C12 witness: the insert is about to be issued after two uploads settled.
C12_Witness ==
  /\ pc = "insert"
  /\ Len(events) = 2
  /\ \E i \in 1..Len(ops) : ops[i].op = "delete"

\* The (category, participantType, entryFee) combination of a record.
Combination(e) == <<e.category, e.participant_type, e.entry_fee>>

\* C13: two records of a pass with the same eventSourceId and different
\* (category, participantType, entryFee) combinations have different ids
\* and different poster paths.
C13_VariantsDistinct ==
  \A i, j \in 1..Len(events) :
    (events[i].id[2] = events[j].id[2]
       /\ Combination(events[i]) # Combination(events[j])) =>
      (events[i].id # events[j].id /\ events[i].poster_url # events[j].poster_url)

\* What ends a run of the incremental script.
IncrAborts ==
  {"credentials", "page fetch", "no cards", "no events", "upsert", "update"}

Schedule == <<80, 70, 60, 50, 40, 30>>

\* C15: the qualities tried are a prefix of 80, 70, 60, 50, 40, 30 (at most
\* six encodes); every encoding before the last tried was not under the
\* ceiling; a return gives the last tried encoding, which is under the
\* ceiling; the error is thrown only after all six were tried and none was
\* under the ceiling; while the loop runs a step can be taken.
C15_QualitySchedule ==
  /\ Len(tried) <= 6
  /\ tried = SubSeq(Schedule, 1, Len(tried))
  /\ \A i \in 1..(Len(tried) - 1) : enc[tried[i]] >= MAX_IMAGE_SIZE
  /\ cpc = "returned" =>
       /\ Len(tried) >= 1
       /\ output = <<enc[tried[Len(tried)]]>>
       /\ enc[tried[Len(tried)]] < MAX_IMAGE_SIZE
  /\ cpc = "thrown" =>
       /\ tried = Schedule
       /\ \A q \in Qualities : enc[q] >= MAX_IMAGE_SIZE
  /\ cpc = "loop" =>
       /\ \A i \in 1..Len(tried) : enc[tried[i]] >= MAX_IMAGE_SIZE
       /\ ENABLED NextCompress

\* C15 witness: the encoding at the floor quality 30 is returned after the
\* five above it were turned down.
C15_Witness ==
  /\ cpc = "returned"
  /\ tried = Schedule

\* The fields the comparison is specified to look at.
Tracked == {"title", "event_date", "venue", "category", "entry_fee", "team_size"}

\* C16: a scraped record whose id is cached is Updated when one of title,
\* date, venue, category, entry fee, team size differs from the cached
\* record, and Unchanged when none does, whatever its other fields hold.
C16_TrackedFieldsDecide ==
  Classified =>
    \A i \in 1..Len(events) :
      LET got == MapGet(loadCache(cache0), events[i].id)
          differs == \E f \in Tracked : got[1][f] # events[i][f]
      IN  got # << >> =>
            /\ differs =>
                 /\ events[i] \in SeqRange(diff.updatedEvents)
                 /\ events[i] \notin SeqRange(diff.unchangedEvents)
            /\ ~differs =>
                 /\ events[i] \in SeqRange(diff.unchangedEvents)
                 /\ events[i] \notin SeqRange(diff.updatedEvents)
            /\ events[i] \notin SeqRange(diff.newEvents)

\* C16 witness: a record Unchanged although its poster URL and participant
\* type differ from the cached record.
C16_Witness ==
  /\ Classified
  /\ cache0.state = "valid"
  /\ Len(events) = 1
  /\ Len(cache0.events) = 1
  /\ diff.unchangedEvents = events
  /\ events[1].poster_url # cache0.events[1].poster_url
  /\ events[1].participant_type # cache0.events[1].participant_type

\* C17: when a full-replace run has ended successfully, the poster_url of
\* every record it inserted names an object the bucket holds.
C17_PostersExist ==
  (pc = "done" /\ events # << >>) =>
    \A i \in 1..Len(events) :
      /\ events[i].id \in DOMAIN store
      /\ store[events[i].id].rec.poster_url # << >>
      /\ store[events[i].id].rec.poster_url[1] \in objects

\* C18: when a full-replace run has aborted on the insert, the table holds
\* what it held when the run started.
C18_FailedInsertKeepsRecords ==
  (pc = "failed" /\ error = "insert") => store = store0

\* The store an uninterrupted run leaves: the upsert of New and Updated,
\* then the mark-inactive of Deleted.
Applied(st, d) ==
  MarkedInactive(Upserted(st, d.newEvents \o d.updatedEvents),
                 SeqRange(d.deletedEventIds))

\* C19: in the run that follows a run aborted on the mark-inactive update
\* and scrapes the same pass, the classification is the one of the aborted
\* run, and when it ends successfully the table is what the aborted run
\* would have left had it not been interrupted, and the cache file is one
\* saveCache leaves from the file the aborted run started on.
C19_RerunConverges ==
  prev.error = "update" =>
    /\ Classified =>
         /\ events = prev.events
         /\ diff = prev.diff
    /\ pc = "done" =>
         /\ store = Applied(prev.store0, prev.diff)
         /\ cache \in SavedFiles(cache0, prev.events)

\* C19 witness: the re-run of an aborted run has ended successfully, with
\* records upserted and records marked inactive, and wrote the snapshot.
C19_Witness ==
  /\ prev.error = "update"
  /\ pc = "done"
  /\ prev.diff.newEvents \o prev.diff.updatedEvents # << >>
  /\ prev.diff.deletedEventIds # << >>
  /\ cache = [state |-> "valid", events |-> prev.events]

\* C20: a run that ends with no admitted event (the full-replace run returns
\* on an empty list; the incremental run aborts on 'No event cards found' or
\* 'No events scraped') has made no store, bucket or cache call and leaves
\* the table, the bucket and the cache file as they were at its start.
C20_EmptyPassTouchesNothing ==
  ((pc = "done" /\ events = << >>) \/
   (pc = "failed" /\ error \in {"no cards", "no events"})) =>
    /\ ops = << >>
    /\ store = store0
    /\ objects = objects0
    /\ cache = cache0

\* C20 witness: a full-replace run over a page with cards, none admitted,
\* has ended with records in the table and posters in the bucket.
C20_Witness ==
  /\ pc = "done"
  /\ events = << >>
  /\ Len(cards) >= 1
  /\ DOMAIN store # {}
  /\ objects # {}
====
